---------------------------- MODULE Spec2Model ----------------------------
(***************************************************************************)
(* A model of src/app.py: the resume / job-description analysis script.   *)
(*                                                                         *)
(* Texts are sequences of one-character strings, so that lowercasing,      *)
(* substring containment, the regular expressions and str.title() are      *)
(* computed character by character, as Python computes them.               *)
(*                                                                         *)
(* Scores are fixed-point numbers: a Python float x is held as the integer *)
(* x * Scale.  Every product and quotient of calculate_ats_score is exact  *)
(* at this scale for an integer match_percentage.                          *)
(***************************************************************************)
EXTENDS Integers, Sequences, FiniteSets, TLC

VARIABLES
    pc,                \* position of the script run / of the function call
    nlp,               \* the module-level name `nlp`: "loaded" or "unbound"
    resume_file,       \* the resume uploader's value: NoFile or a file
    jd_content,        \* the job-description text (jd_text of the scorer)
    resume_text,       \* extract_text(resume_file) (resume_text of the scorer)
    rendered,          \* the elements this script run has put on the page
    title,             \* analyze_job_identity's job_title
    category,          \* analyze_job_identity's detected_category
    final_score,       \* calculate_ats_score's result in the script
    job_keys,          \* keyword set of the job description
    res_keys,          \* keyword set of the resume
    missing,           \* job_keys - res_keys
    matched,           \* job_keys.intersection(res_keys)
    text,              \* the argument of is_valid_resume / analyze_job_identity
    match_percentage,  \* the scorer's third argument
    score,             \* the scorer's local `score` before the final min
    ret                \* the value a called function returned

vars == <<pc, nlp, resume_file, jd_content, resume_text, rendered, title,
          category, final_score, job_keys, res_keys, missing, matched, text,
          match_percentage, score, ret>>

---------------------------------------------------------------------------
(* Characters and strings                                                  *)

UpperLetters == <<"A","B","C","D","E","F","G","H","I","J","K","L","M","N","O","P","Q","R","S","T","U","V","W","X","Y","Z">>
LowerLetters == <<"a","b","c","d","e","f","g","h","i","j","k","l","m","n","o","p","q","r","s","t","u","v","w","x","y","z">>
Digits == {"0","1","2","3","4","5","6","7","8","9"}
Whitespace == {" ", "\n", "\t"}

Range(s) == {s[i] : i \in 1..Len(s)}

UpperSet == Range(UpperLetters)
LowerSet == Range(LowerLetters)

IsCased(c) == c \in UpperSet \/ c \in LowerSet

\* the lowercase of each uppercase letter, and the reverse
LowerOf ==
    [c \in UpperSet |->
        LowerLetters[CHOOSE i \in 1..Len(UpperLetters) : UpperLetters[i] = c]]
UpperOf ==
    [c \in LowerSet |->
        UpperLetters[CHOOSE i \in 1..Len(LowerLetters) : LowerLetters[i] = c]]

\* str.lower() and str.upper() on one character
LowerChar(c) == IF c \in UpperSet THEN LowerOf[c] ELSE c
UpperChar(c) == IF c \in LowerSet THEN UpperOf[c] ELSE c

\* str.lower()
Lower(s) == [i \in 1..Len(s) |-> LowerChar(s[i])]

\* `w in s` for strings: w occurs at position i of s
OccursAt(w, s, i) ==
    /\ i >= 1
    /\ i + Len(w) - 1 <= Len(s)
    /\ \A j \in 1..Len(w) : s[i + j - 1] = w[j]

\* the same under re.IGNORECASE, for a lowercase w
OccursAtIgnoreCase(w, s, i) ==
    /\ i >= 1
    /\ i + Len(w) - 1 <= Len(s)
    /\ \A j \in 1..Len(w) : LowerChar(s[i + j - 1]) = w[j]

Contains(s, w) == \E i \in 1..(Len(s) - Len(w) + 1) : OccursAt(w, s, i)

\* " ".join(parts)
RECURSIVE Join(_)
Join(parts) ==
    IF Len(parts) = 0 THEN << >>
    ELSE IF Len(parts) = 1 THEN parts[1]
    ELSE parts[1] \o << " " >> \o Join(Tail(parts))

\* the concatenations of at most n members of frags
RECURSIVE Concats(_, _)
Concats(frags, n) ==
    IF n = 0 THEN { << >> }
    ELSE LET shorter == Concats(frags, n - 1)
         IN  shorter \cup {s \o f : s \in shorter, f \in frags}

Min(a, b) == IF a <= b THEN a ELSE b

---------------------------------------------------------------------------
(* is_valid_resume, src/app.py 27-32                                       *)

indicators == << <<"e","x","p","e","r","i","e","n","c","e">>, <<"e","d","u","c","a","t","i","o","n">>, <<"s","k","i","l","l","s">>, <<"p","r","o","j","e","c","t","s">>, <<"s","u","m","m","a","r","y">>, <<"h","i","s","t","o","r","y">> >>

MinIndicators == 2

\* the validator without its lowercasing
Mut_is_valid_resume(t) ==
    LET matches == SelectSeq(indicators, LAMBDA i : Contains(t, i))
    IN  Len(matches) >= MinIndicators

is_valid_resume(t) ==
    LET text_lower == Lower(t)
        matches == SelectSeq(indicators, LAMBDA i : Contains(text_lower, i))
    IN  Len(matches) >= MinIndicators

---------------------------------------------------------------------------
(* calculate_ats_score, src/app.py 75-84                                   *)

\* fixed-point scale of the scores: the float x is the integer x * Scale
Scale == 20

sections == << <<"e","x","p","e","r","i","e","n","c","e">>, <<"e","d","u","c","a","t","i","o","n">>, <<"s","k","i","l","l","s">>, <<"s","u","m","m","a","r","y">> >>

\* re.search(r'\d{10}', s) finds a match
SearchTenDigits(s) ==
    \E i \in 1..(Len(s) - 9) : \A j \in 0..9 : s[i + j] \in Digits

\* the class [\w\.-]
IsEmailChar(c) == IsCased(c) \/ c \in Digits \/ c \in {"_", ".", "-"}

\* re.search(r'[\w\.-]+@[\w\.-]+', s) finds a match
SearchEmail(s) ==
    \E i \in 2..(Len(s) - 1) :
        s[i] = "@" /\ IsEmailChar(s[i - 1]) /\ IsEmailChar(s[i + 1])

contact_info == << "\\d{10}", "[\\w\\.-]+@[\\w\\.-]+" >>

SearchContact(p, s) ==
    IF p = contact_info[1] THEN SearchTenDigits(s) ELSE SearchEmail(s)

\* the scorer with the section points added per section found, not scaled
\* by the fraction of sections found
Mut_score_before_min(rt, jt, mp) ==
    LET s0 == (mp * 7 * Scale) \div 10
        rt_lower == Lower(rt)
        found_sections == SelectSeq(sections, LAMBDA s : Contains(rt_lower, s))
        s1 == s0 + Len(found_sections) * 15 * Scale
        found_contact == SelectSeq(contact_info, LAMBDA p : SearchContact(p, rt))
    IN  s1 + (Len(found_contact) * 15 * Scale) \div Len(contact_info)

\* lines 77-83: the local `score` when line 84 is reached
score_before_min(rt, jt, mp) ==
    LET s0 == (mp * 7 * Scale) \div 10
        rt_lower == Lower(rt)
        found_sections == SelectSeq(sections, LAMBDA s : Contains(rt_lower, s))
        s1 == s0 + (Len(found_sections) * 15 * Scale) \div Len(sections)
        found_contact == SelectSeq(contact_info, LAMBDA p : SearchContact(p, rt))
    IN  s1 + (Len(found_contact) * 15 * Scale) \div Len(contact_info)

\* the scorer with max written for min in its last line
Mut_calculate_ats_score(rt, jt, mp) ==
    IF score_before_min(rt, jt, mp) >= 100 * Scale
    THEN score_before_min(rt, jt, mp) ELSE 100 * Scale

\* line 84: min(score, 100)
calculate_ats_score(rt, jt, mp) == Min(score_before_min(rt, jt, mp), 100 * Scale)

---------------------------------------------------------------------------
(* analyze_job_identity, src/app.py 34-73                                  *)

categories == <<
    [cat |-> <<"D","e","v","e","l","o","p","m","e","n","t">>, keywords |-> << <<"s","o","f","t","w","a","r","e">>, <<"d","e","v","e","l","o","p","e","r">>, <<"e","n","g","i","n","e","e","r">>, <<"f","r","o","n","t","e","n","d">>, <<"b","a","c","k","e","n","d">>, <<"f","u","l","l","s","t","a","c","k">>, <<"c","o","d","e","r">>, <<"p","r","o","g","r","a","m","m","i","n","g">>, <<"p","y","t","h","o","n">>, <<"j","a","v","a">>, <<"r","e","a","c","t">> >>],
    [cat |-> <<"S","a","l","e","s">>, keywords |-> << <<"s","a","l","e","s">>, <<"a","c","c","o","u","n","t"," ","e","x","e","c","u","t","i","v","e">>, <<"b","u","s","i","n","e","s","s"," ","d","e","v","e","l","o","p","m","e","n","t">>, <<"i","n","s","i","d","e"," ","s","a","l","e","s">>, <<"o","u","t","r","e","a","c","h">>, <<"r","e","v","e","n","u","e">>, <<"c","l","i","e","n","t">> >>],
    [cat |-> <<"M","a","r","k","e","t","i","n","g">>, keywords |-> << <<"m","a","r","k","e","t","i","n","g">>, <<"s","e","o">>, <<"s","o","c","i","a","l"," ","m","e","d","i","a">>, <<"c","o","n","t","e","n","t">>, <<"b","r","a","n","d","i","n","g">>, <<"d","i","g","i","t","a","l">>, <<"c","o","p","y","w","r","i","t","e","r">> >>],
    [cat |-> <<"D","a","t","a"," ","&"," ","A","I">>, keywords |-> << <<"d","a","t","a"," ","s","c","i","e","n","t","i","s","t">>, <<"d","a","t","a"," ","a","n","a","l","y","s","t">>, <<"m","a","c","h","i","n","e"," ","l","e","a","r","n","i","n","g">>, <<"a","i">>, <<"s","q","l">>, <<"t","a","b","l","e","a","u">>, <<"s","t","a","t","i","s","t","i","c","s">> >>],
    [cat |-> <<"H","R"," ","&"," ","A","d","m","i","n">>, keywords |-> << <<"h","r">>, <<"h","u","m","a","n"," ","r","e","s","o","u","r","c","e","s">>, <<"r","e","c","r","u","i","t","e","r">>, <<"t","a","l","e","n","t">>, <<"a","d","m","i","n">>, <<"o","f","f","i","c","e">>, <<"o","p","e","r","a","t","i","o","n","s">> >>] >>

OtherCategory == <<"O","t","h","e","r"," ","P","r","o","f","e","s","s","i","o","n","a","l">>
GenericTitle == <<"G","e","n","e","r","i","c"," ","P","r","o","f","e","s","s","i","o","n","a","l"," ","R","o","l","e">>

\* any(kw in text_lower for kw in keywords)
AnyKeyword(text_lower, keywords) ==
    \E k \in 1..Len(keywords) : Contains(text_lower, keywords[k])

\* the category loop without its break: the last category that hits wins
RECURSIVE Mut_DetectCategory(_, _)
Mut_DetectCategory(text_lower, i) ==
    IF i > Len(categories) THEN OtherCategory
    ELSE LET later == Mut_DetectCategory(text_lower, i + 1)
         IN  IF later # OtherCategory THEN later
             ELSE IF AnyKeyword(text_lower, categories[i].keywords)
                  THEN categories[i].cat
                  ELSE OtherCategory

\* lines 49-53: the loop over categories.items() from its i-th item on
RECURSIVE DetectCategory(_, _)
DetectCategory(text_lower, i) ==
    IF i > Len(categories) THEN OtherCategory
    ELSE IF AnyKeyword(text_lower, categories[i].keywords)
         THEN categories[i].cat
         ELSE DetectCategory(text_lower, i + 1)

\* The title patterns (?i)<literal><sep>+(<not stop>+): the literal, the
\* class repeated after it, and the characters the captured group excludes.
patterns == <<
    [literal |-> <<"j","o","b"," ","t","i","t","l","e">>, sep |-> {":"} \cup Whitespace, stop |-> {"\n"}],
    [literal |-> <<"p","o","s","i","t","i","o","n">>, sep |-> {":"} \cup Whitespace, stop |-> {"\n"}],
    [literal |-> <<"r","o","l","e">>, sep |-> {":"} \cup Whitespace, stop |-> {"\n"}],
    [literal |-> <<"l","o","o","k","i","n","g"," ","f","o","r"," ","a">>, sep |-> Whitespace, stop |-> {"\n", ",", "."}] >>

\* the length of the longest run of characters of class cls that starts at a
RunLength(s, a, cls) ==
    CHOOSE r \in 0..(Len(s) - a + 1) :
        /\ \A j \in 0..(r - 1) : s[a + j] \in cls
        /\ a + r > Len(s) \/ s[a + r] \notin cls

\* Where the group of pattern p starts when p matches with its literal at i,
\* and 0 when it does not match there: the greedy sep+ gives characters back
\* until the one after it can start the group.
GroupStart(p, s, i) ==
    IF ~OccursAtIgnoreCase(p.literal, s, i) THEN 0
    ELSE LET a == i + Len(p.literal)
             r == RunLength(s, a, p.sep)
             ks == {k \in 1..r : a + k <= Len(s) /\ s[a + k] \notin p.stop}
         IN  IF ks = {} THEN 0
             ELSE a + (CHOOSE k \in ks : \A m \in ks : m <= k)

\* re.search(p, s): whether it matches, and group(1) of the leftmost match
Search(p, s) ==
    LET starts == {i \in 1..Len(s) : GroupStart(p, s, i) > 0}
    IN  IF starts = {} THEN [found |-> FALSE, group |-> << >>]
        ELSE LET i == CHOOSE x \in starts : \A y \in starts : x <= y
                 g == GroupStart(p, s, i)
                 n == RunLength(s, g, Range(s) \ p.stop)
             IN  [found |-> TRUE, group |-> SubSeq(s, g, g + n - 1)]

\* str.strip()
RECURSIVE Strip(_)
Strip(s) ==
    IF Len(s) = 0 THEN s
    ELSE IF s[1] \in Whitespace THEN Strip(Tail(s))
    ELSE IF s[Len(s)] \in Whitespace THEN Strip(SubSeq(s, 1, Len(s) - 1))
    ELSE s

\* str.title(): a cased character is uppercased unless a cased one precedes it
Title(s) ==
    [i \in 1..Len(s) |->
        IF i > 1 /\ IsCased(s[i - 1]) THEN LowerChar(s[i]) ELSE UpperChar(s[i])]

\* lines 56-67: the loop over patterns from the i-th on
RECURSIVE DetectTitle(_, _)
DetectTitle(t, i) ==
    IF i > Len(patterns) THEN GenericTitle
    ELSE LET match == Search(patterns[i], t)
         IN  IF match.found THEN Title(Strip(match.group))
             ELSE DetectTitle(t, i + 1)

analyze_job_identity(t) ==
    LET text_lower == Lower(t)
        detected_category == DetectCategory(text_lower, 1)
        job_title == DetectTitle(t, 1)
    IN  IF job_title = GenericTitle /\ detected_category # OtherCategory
        THEN [job_title |-> detected_category \o <<" ","S","p","e","c","i","a","l","i","s","t">>,
              detected_category |-> detected_category]
        ELSE [job_title |-> job_title, detected_category |-> detected_category]

---------------------------------------------------------------------------
(* extract_text, src/app.py 17-25                                          *)

\* A document: the extension its name ends with and the text of each page
\* (PDF) or paragraph (DOCX).  NoFile is the uploader's None.
NoFile == [uploaded |-> FALSE, ext |-> "", parts |-> << >>]

extract_text(file) ==
    IF file.ext = ".pdf"
    THEN Join(SelectSeq(file.parts, LAMBDA page : page # << >>))
    ELSE IF file.ext = ".docx" THEN Join(file.parts)
    ELSE << >>

---------------------------------------------------------------------------
(* The script, src/app.py 9-13 and 86-159: one run per page interaction    *)

\* the page or paragraph texts of the resumes uploaded
ResumeParts == { << >>, <<"E","x","p","e","r","i","e","n","c","e"," ","S","k","i","l","l","s">>, <<"e","d","u","c","a","t","i","o","n">>, <<"a","@","b",".","c">>, <<"@">> }

\* the most pages or paragraphs a resume has
MaxParts == 2

\* the endings of the uploaded files' names: the two extract_text reads and
\* one it does not, the same extension in capitals
FileExts == {".pdf", ".docx", ".PDF"}

PartSeqs(n) == UNION {[1..m -> ResumeParts] : m \in 0..n}

ResumeFiles ==
    {[uploaded |-> TRUE, ext |-> e, parts |-> ps] :
        e \in FileExts, ps \in PartSeqs(MaxParts)}

\* the job descriptions pasted or uploaded
JdTexts == { <<"p","y","t","h","o","n"," ","d","e","v","e","l","o","p","e","r">>, <<"R","o","l","e",":"," ","g","e","n","e","r","i","c"," ","p","r","o","f","e","s","s","i","o","n","a","l"," ","r","o","l","e","\n","s","a","l","e","s"," ","t","e","a","m">>, <<"a","c","c","o","u","n","t","i","n","g">> }

JdFiles ==
    {[uploaded |-> TRUE, ext |-> e, parts |-> << t >>] :
        e \in FileExts, t \in JdTexts}

\* cosine_similarity(...)[0][0] * 100 of two TF-IDF vectors, line 129: the
\* vectors have no negative component, so it is a percentage
BaseMatches == {0, 50, 100}

\* The tokens the tagger can keep (PROPN or NOUN, not a stop word),
\* uppercased: lines 136-139.  Which tokens the spaCy model keeps is not
\* decided by this repository, so each keyword set is any subset.
KeyUniverse == {"PYTHON", "SALES", "TEAM"}

\* line 140
Mut_MissingKeys(jk, rk) == rk \ jk

MissingKeys(jk, rk) == jk \ rk

\* line 144
MatchedKeys(jk, rk) == jk \cap rk

Unset ==
    /\ resume_text = << >>
    /\ title = << >>
    /\ category = << >>
    /\ final_score = 0
    /\ job_keys = {}
    /\ res_keys = {}
    /\ missing = {}
    /\ matched = {}

NoCall ==
    /\ text = << >>
    /\ match_percentage = 0
    /\ score = 0
    /\ ret = 0

Init ==
    /\ pc = "load"
    /\ nlp = "unbound"
    /\ resume_file = NoFile
    /\ jd_content = << >>
    /\ rendered = {}
    /\ Unset
    /\ NoCall

\* lines 10-11: spacy.load succeeds
LoadModel ==
    /\ pc = "load"
    /\ nlp' = "loaded"
    /\ pc' = "layout"
    /\ UNCHANGED <<resume_file, jd_content, resume_text, rendered, title,
                   category, final_score, job_keys, res_keys, missing,
                   matched, text, match_percentage, score, ret>>

\* lines 12-13: spacy.load raises; the bare except shows an error and the
\* script goes on with `nlp` unbound
LoadModelFails ==
    /\ pc = "load"
    /\ nlp' = "unbound"
    /\ rendered' = rendered \cup {"model_error"}
    /\ pc' = "layout"
    /\ UNCHANGED <<resume_file, jd_content, resume_text, title, category,
                   final_score, job_keys, res_keys, missing, matched, text,
                   match_percentage, score, ret>>

\* lines 88-106: the widgets return what the user has entered
Layout ==
    /\ pc = "layout"
    /\ resume_file' \in {NoFile} \cup ResumeFiles
    /\ \E jd_option \in {"Paste Text", "Upload File"} :
          IF jd_option = "Paste Text"
          THEN jd_content' \in {<< >>} \cup JdTexts
          ELSE \E jd_file \in {NoFile} \cup JdFiles :
                  jd_content' = IF jd_file.uploaded THEN extract_text(jd_file)
                                ELSE << >>
    /\ pc' = "button"
    /\ UNCHANGED <<nlp, resume_text, rendered, title, category, final_score,
                   job_keys, res_keys, missing, matched, text,
                   match_percentage, score, ret>>

\* line 110: the button was not clicked in this run
NoClick ==
    /\ pc = "button"
    /\ pc' = "idle"
    /\ UNCHANGED <<nlp, resume_file, jd_content, resume_text, rendered, title,
                   category, final_score, job_keys, res_keys, missing,
                   matched, text, match_percentage, score, ret>>

\* lines 110-159: the button was clicked
Generate ==
    /\ pc = "button"
    /\ pc' = "analysed"
    /\ IF resume_file.uploaded /\ jd_content # << >>
       THEN LET rt == extract_text(resume_file)
            IN  /\ resume_text' = rt
                /\ IF ~is_valid_resume(rt)
                   THEN /\ rendered' = rendered \cup {"invalid"}
                        /\ UNCHANGED <<title, category, final_score, job_keys,
                                       res_keys, missing, matched>>
                   ELSE LET identity == analyze_job_identity(jd_content)
                        IN  /\ title' = identity.job_title
                            /\ category' = identity.detected_category
                            /\ \E base_match \in BaseMatches :
                                  final_score' =
                                      calculate_ats_score(rt, jd_content, base_match)
                            /\ IF nlp = "unbound"
                               THEN \* line 136 raises NameError
                                    /\ rendered' = rendered \cup
                                          {"role", "category", "score", "exception"}
                                    /\ UNCHANGED <<job_keys, res_keys, missing,
                                                   matched>>
                               ELSE \E jk \in SUBSET KeyUniverse :
                                    \E rk \in SUBSET KeyUniverse :
                                    /\ job_keys' = jk
                                    /\ res_keys' = rk
                                    /\ missing' = MissingKeys(jk, rk)
                                    /\ matched' = MatchedKeys(jk, rk)
                                    /\ rendered' = rendered \cup
                                          {"role", "category", "score",
                                           "matched", "missing", "title_mod"}
                                          \cup (IF MissingKeys(jk, rk) # {}
                                                THEN {"keywords_mod"} ELSE {})
                                          \cup (IF ~Contains(rt, << "@" >>)
                                                THEN {"email_notice"} ELSE {})
       ELSE /\ rendered' = rendered \cup {"warning"}
            /\ UNCHANGED <<resume_text, title, category, final_score, job_keys,
                           res_keys, missing, matched>>
    /\ UNCHANGED <<nlp, resume_file, jd_content, text, match_percentage,
                   score, ret>>

\* the next interaction runs the script again from its first line; nothing
\* of a run but the widgets' values outlives it, and Layout reads them anew
Rerun ==
    /\ pc \in {"idle", "analysed"}
    /\ pc' = "load"
    /\ nlp' = "unbound"
    /\ resume_file' = NoFile
    /\ jd_content' = << >>
    /\ rendered' = {}
    /\ resume_text' = << >>
    /\ title' = << >>
    /\ category' = << >>
    /\ final_score' = 0
    /\ job_keys' = {}
    /\ res_keys' = {}
    /\ missing' = {}
    /\ matched' = {}
    /\ UNCHANGED <<text, match_percentage, score, ret>>

Next ==
    \/ LoadModel
    \/ LoadModelFails
    \/ Layout
    \/ NoClick
    \/ Generate
    \/ Rerun

Spec == Init /\ [][Next]_vars

---------------------------------------------------------------------------
(* The functions called on their own, each on every input of a bounded set *)

NotRunning ==
    /\ nlp = "unbound"
    /\ resume_file = NoFile
    /\ rendered = {}
    /\ title = << >>
    /\ category = << >>
    /\ final_score = 0
    /\ job_keys = {}
    /\ res_keys = {}
    /\ missing = {}
    /\ matched = {}

\* the pieces the texts given to is_valid_resume are made of
ValidFrags ==
    { <<"E","x","p","e","r","i","e","n","c","e">>, <<"e","d","u","c","a","t","i","o","n"," ">>, <<"S","K","I","L","L","S">>, <<"p","r","o","j","e","c","t","s">>, <<"s","u","m","m","a","r","y">>,
      <<"w","o","r","k"," ","h","i","s","t","o","r","y">>, <<"q","u","a","l","i","f","i","c","a","t","i","o","n">>, <<"p","r","o","j","e","c","t">>, <<" ">> }

\* the most pieces such a text has
MaxValidFrags == 2

InitValid ==
    /\ pc = "call"
    /\ text \in Concats(ValidFrags, MaxValidFrags)
    /\ ret = FALSE
    /\ jd_content = << >>
    /\ resume_text = << >>
    /\ match_percentage = 0
    /\ score = 0
    /\ NotRunning

\* ret = is_valid_resume(text)
CallIsValidResume ==
    /\ pc = "call"
    /\ ret' = is_valid_resume(text)
    /\ pc' = "return"
    /\ UNCHANGED <<nlp, resume_file, jd_content, resume_text, rendered, title,
                   category, final_score, job_keys, res_keys, missing,
                   matched, text, match_percentage, score>>

NextValid == CallIsValidResume

SpecValid == InitValid /\ [][NextValid]_vars

\* the pieces the resume texts given to calculate_ats_score are made of
ScoreFrags ==
    { <<"E","x","p","e","r","i","e","n","c","e"," ","e","d","u","c","a","t","i","o","n"," ","S","K","I","L","L","S"," ","s","u","m","m","a","r","y"," ">>, <<"s","k","i","l","l","s"," ">>, <<"S","u","m","m","a","r","y">>,
      <<"0","1","2","3","4">>, <<"0","1","2","3","4","5","6","7","8","9"," ","a","@","b",".","c">>, <<"a","@","b">>, <<"@"," ">>, <<" ">> }

\* the most pieces such a text has
MaxScoreFrags == 2

\* how far below 0 and above 100 the match_percentage given goes
MatchSlack == 3

InitScore ==
    /\ pc = "call"
    /\ resume_text \in Concats(ScoreFrags, MaxScoreFrags)
    /\ jd_content \in {<< >>, <<"p","y","t","h","o","n">>, <<"E","x","p","e","r","i","e","n","c","e"," ","a","@","b",".","c"," ","0","1","2","3","4","5","6","7","8","9">>}
    /\ match_percentage \in (0 - MatchSlack)..(100 + MatchSlack)
    /\ text = << >>
    /\ score = 0
    /\ ret = 0
    /\ NotRunning

\* ret = calculate_ats_score(resume_text, jd_content, match_percentage)
CallCalculateAtsScore ==
    /\ pc = "call"
    /\ score' = score_before_min(resume_text, jd_content, match_percentage)
    /\ ret' = calculate_ats_score(resume_text, jd_content, match_percentage)
    /\ pc' = "return"
    /\ UNCHANGED <<nlp, resume_file, jd_content, resume_text, rendered, title,
                   category, final_score, job_keys, res_keys, missing,
                   matched, text, match_percentage>>

NextScore == CallCalculateAtsScore

SpecScore == InitScore /\ [][NextScore]_vars

\* the pieces the job descriptions given to analyze_job_identity are made of
IdentityFrags ==
    { <<"J","o","b"," ","T","i","t","l","e",":"," ","s","e","n","i","o","r"," ","b","a","c","k","e","n","d"," ","e","n","g","i","n","e","e","r","\n">>, <<"R","o","l","e",":"," ","g","e","n","e","r","i","c"," ","p","r","o","f","e","s","s","i","o","n","a","l"," ","r","o","l","e","\n">>,
      <<"l","o","o","k","i","n","g"," ","f","o","r"," ","a"," ","s","a","l","e","s"," ","l","e","a","d",","," ","r","e","m","o","t","e",".">>, <<"p","o","s","i","t","i","o","n",":"," ">>, <<"h","i","r","i","n","g"," ","f","o","r"," ","a"," ","c","l","e","r","k">>,
      <<"p","y","t","h","o","n"," ">>, <<"S","A","L","E","S"," ">>, <<"s","e","o"," ">>, <<"R","e","c","r","u","i","t","e","r">>, <<"s","q","l"," ">>, <<"\n">> }

\* the most pieces such a text has
MaxIdentityFrags == 2

InitIdentity ==
    /\ pc = "call"
    /\ text \in Concats(IdentityFrags, MaxIdentityFrags)
    /\ ret = [job_title |-> << >>, detected_category |-> << >>]
    /\ jd_content = << >>
    /\ resume_text = << >>
    /\ match_percentage = 0
    /\ score = 0
    /\ NotRunning

\* ret = analyze_job_identity(text)
CallAnalyzeJobIdentity ==
    /\ pc = "call"
    /\ ret' = analyze_job_identity(text)
    /\ pc' = "return"
    /\ UNCHANGED <<nlp, resume_file, jd_content, resume_text, rendered, title,
                   category, final_score, job_keys, res_keys, missing,
                   matched, text, match_percentage, score>>

NextIdentity == CallAnalyzeJobIdentity

SpecIdentity == InitIdentity /\ [][NextIdentity]_vars

---------------------------------------------------------------------------
(* Properties                                                              *)

BothInputsPresent == resume_file.uploaded /\ jd_content # << >>

MissingInputOutcome == "warning" \in rendered
InvalidDocumentOutcome == "invalid" \in rendered
ReportParts == {"role", "category", "score", "matched", "missing"}
ReportOutcome ==
    /\ ReportParts \cup {"title_mod"} \subseteq rendered
    /\ "exception" \notin rendered

ExactlyOne(a, b, c) ==
    \/ a /\ ~b /\ ~c
    \/ ~a /\ b /\ ~c
    \/ ~a /\ ~b /\ c

\* C1: every run of the analysis ends in exactly one of three outcomes: the
\* missing-input signal (the resume file absent or the job description
\* empty), the invalid-document signal (both present, is_valid_resume
\* false) or a report; a role, category, score or keyword count is rendered
\* only when both inputs are present and the resume is valid.
C1_ThreeOutcomes ==
    pc = "analysed" =>
        /\ ExactlyOne(MissingInputOutcome, InvalidDocumentOutcome, ReportOutcome)
        /\ MissingInputOutcome <=> ~BothInputsPresent
        /\ InvalidDocumentOutcome <=>
              (BothInputsPresent /\ ~is_valid_resume(extract_text(resume_file)))
        /\ (rendered \cap ReportParts # {}) =>
              (BothInputsPresent /\ is_valid_resume(extract_text(resume_file)))

\* The three outcomes on the runs whose model load succeeded.
ThreeOutcomesWhenLoaded == nlp = "loaded" => C1_ThreeOutcomes

\* C7: when loading the model failed, no analysis run of the process
\* renders a role, a category or a score, and none ends in an exception in
\* the middle of the analysis.
C7_LoadFailureIsFatal ==
    (pc = "analysed" /\ nlp = "unbound") =>
        rendered \cap {"role", "category", "score", "exception"} = {}

\* C10: in every report the "No email detected" notice is rendered exactly
\* when the scorer's email pattern finds nothing in the resume text.
C10_EmailNoticeAgreesWithScorer ==
    (pc = "analysed" /\ ReportOutcome) =>
        ("email_notice" \in rendered <=> ~SearchEmail(resume_text))

\* C6: the missing keywords are job keywords and none of them is a resume
\* keyword, the matched keywords are the job keywords that are resume
\* keywords, and matched and missing partition the job keywords.
C6_KeywordPartition ==
    (pc = "analysed" /\ "missing" \in rendered) =>
        /\ missing \subseteq job_keys
        /\ missing \cap res_keys = {}
        /\ matched = {k \in job_keys : k \in res_keys}
        /\ matched \cup missing = job_keys
        /\ matched \cap missing = {}
        /\ Cardinality(matched) + Cardinality(missing) = Cardinality(job_keys)

\* a report with a matched keyword, a missing keyword and a resume keyword
\* the job description does not have
C6_Witness ==
    /\ pc = "analysed"
    /\ "missing" \in rendered
    /\ matched # {}
    /\ missing # {}
    /\ res_keys \ job_keys # {}

CountOf(words, s) == Cardinality({w \in words : Contains(Lower(s), w)})

ClaimedIndicators ==
    { <<"e","x","p","e","r","i","e","n","c","e">>, <<"e","d","u","c","a","t","i","o","n">>, <<"s","k","i","l","l","s">>, <<"p","r","o","j","e","c","t","s">>, <<"s","u","m","m","a","r","y">>, <<"h","i","s","t","o","r","y">>,
      <<"w","o","r","k"," ","h","i","s","t","o","r","y">>, <<"q","u","a","l","i","f","i","c","a","t","i","o","n">> }

\* C3 as stated: is_valid_resume(text) is true exactly when at least 2 of
\* the eight indicators experience, education, skills, projects, summary,
\* history, work history, qualification occur in the lowercased text.
C3_ValidIffTwoOfEight ==
    pc = "return" => (ret <=> CountOf(ClaimedIndicators, text) >= 2)

\* C3 amended: is_valid_resume(text) is true exactly when at least 2 of the
\* six indicators experience, education, skills, projects, summary, history
\* occur in the lowercased text.
C3_ValidIffTwoOfSix ==
    pc = "return" =>
        (ret <=> CountOf({ <<"e","x","p","e","r","i","e","n","c","e">>, <<"e","d","u","c","a","t","i","o","n">>, <<"s","k","i","l","l","s">>, <<"p","r","o","j","e","c","t","s">>,
                           <<"s","u","m","m","a","r","y">>, <<"h","i","s","t","o","r","y">> }, text) >= 2)

\* a text accepted for exactly two indicators, one of them not in lowercase
C3_Witness ==
    /\ pc = "return"
    /\ ret = TRUE
    /\ CountOf(ClaimedIndicators, text) = 2
    /\ CountOf(ClaimedIndicators, text) > Cardinality({w \in ClaimedIndicators : Contains(text, w)})

SectionsFound(s) == CountOf({ <<"e","x","p","e","r","i","e","n","c","e">>, <<"e","d","u","c","a","t","i","o","n">>, <<"s","k","i","l","l","s">>, <<"s","u","m","m","a","r","y">> }, s)
ContactsFound(s) ==
    (IF SearchTenDigits(s) THEN 1 ELSE 0) + (IF SearchEmail(s) THEN 1 ELSE 0)

\* 40 times the weighted sum 0.7 * mp + 15 * (k / 4) + 15 * (c / 2)
WeightedSum40(mp, k, c) == 28 * mp + 150 * k + 300 * c

\* C8: for match_percentage in 0..100 the result is
\* min(100, 0.7 * match_percentage + 15 * (k / 4) + 15 * (c / 2)), k the
\* number of the four section words in the lowercased resume text and c the
\* number of the two contact patterns found in it, whatever the job
\* description text is.
C8_ScoreFormula ==
    (pc = "return" /\ match_percentage \in 0..100) =>
        40 * ret = Scale * Min(4000, WeightedSum40(match_percentage,
                                                   SectionsFound(resume_text),
                                                   ContactsFound(resume_text)))

\* 50 percent, one section and one contact pattern in the resume, with a job
\* description that holds a section word and both contact patterns: 46.25
C8_Witness ==
    /\ pc = "return"
    /\ match_percentage = 50
    /\ SectionsFound(resume_text) = 1
    /\ ContactsFound(resume_text) = 1
    /\ SectionsFound(jd_content) = 1
    /\ ContactsFound(jd_content) = 2
    /\ 4 * ret = 185 * Scale

\* C9 as stated, at the input it describes: with match_percentage 100, all
\* four sections and both contact patterns found, the weighted sum is
\* greater than 100 before the final min, which therefore changes it.
C9_SumExceeds100 ==
    (/\ pc = "return"
     /\ match_percentage = 100
     /\ SectionsFound(resume_text) = 4
     /\ ContactsFound(resume_text) = 2) =>
        (score > 100 * Scale /\ ret # score)

\* C9 amended: for match_percentage in 0..100 the weighted sum is at most
\* 100 (exactly 100 at match_percentage 100 with all four sections and both
\* contact patterns found), so the final min returns it unchanged.
C9_SumAtMost100 ==
    (pc = "return" /\ match_percentage \in 0..100) =>
        (score <= 100 * Scale /\ ret = score)

\* the greatest sum: 100 percent, four sections, both contact patterns
C9_Witness ==
    /\ pc = "return"
    /\ match_percentage = 100
    /\ SectionsFound(resume_text) = 4
    /\ ContactsFound(resume_text) = 2
    /\ score = 100 * Scale

ClaimedOrder == << <<"D","e","v","e","l","o","p","m","e","n","t">>, <<"S","a","l","e","s">>, <<"M","a","r","k","e","t","i","n","g">>, <<"D","a","t","a"," ","&"," ","A","I">>, <<"H","R"," ","&"," ","A","d","m","i","n">> >>

KeywordsOf(c) ==
    LET i == CHOOSE x \in 1..Len(categories) : categories[x].cat = c
    IN  categories[i].keywords

\* the places in ClaimedOrder of the categories with a keyword in lowercased s
Hits(s) == {i \in 1..Len(ClaimedOrder) : AnyKeyword(Lower(s), KeywordsOf(ClaimedOrder[i]))}

FirstHitOr(s, other) ==
    IF Hits(s) = {} THEN other
    ELSE ClaimedOrder[CHOOSE i \in Hits(s) : \A j \in Hits(s) : i <= j]

\* C4 as stated: the category is the first of Development, Sales,
\* Marketing, Data & AI, HR & Admin with a keyword in the lowercased text,
\* and Other when none has one; so it is one of these six.
C4_FirstHitElseOther ==
    pc = "return" =>
        /\ ret.detected_category = FirstHitOr(text, <<"O","t","h","e","r">>)
        /\ ret.detected_category \in Range(ClaimedOrder) \cup { <<"O","t","h","e","r">> }

\* C4 amended: the category is the first of Development, Sales, Marketing,
\* Data & AI, HR & Admin with a keyword in the lowercased text, and
\* Other Professional when none has one; so it is one of these six.
C4_FirstHitElseOtherProfessional ==
    pc = "return" =>
        /\ ret.detected_category = FirstHitOr(text, <<"O","t","h","e","r"," ","P","r","o","f","e","s","s","i","o","n","a","l">>)
        /\ ret.detected_category \in Range(ClaimedOrder) \cup { <<"O","t","h","e","r"," ","P","r","o","f","e","s","s","i","o","n","a","l">> }

\* a text with keywords of two categories, resolved to the one declared first
C4_Witness ==
    /\ pc = "return"
    /\ Cardinality(Hits(text)) >= 2
    /\ \E i \in Hits(text) : i > 1 /\ ret.detected_category = ClaimedOrder[i]

\* the places in patterns of the title patterns that match s
Matching(s) == {i \in 1..Len(patterns) : Search(patterns[i], s).found}

\* C5, for the patterns job title, position, role and looking for a:
\* whenever one of them matches the text, the title returned is the group
\* captured by the first that matches, trimmed and title-cased, whatever
\* that text is and whatever the category is.
C5_TitleIsFirstCapture ==
    (pc = "return" /\ Matching(text) # {}) =>
        LET first == CHOOSE i \in Matching(text) : \A j \in Matching(text) : i <= j
        IN  ret.job_title = Title(Strip(Search(patterns[first], text).group))

===========================================================================
